---- MODULE Spec2Model ----
(***************************************************************************)
(* Model of uavcan::dynamic_node_id_server::distributed::Server            *)
(* (libuavcan/include/uavcan/protocol/dynamic_node_id_server/distributed/  *)
(* server.hpp): the allocation logic that sits on top of the Raft core,    *)
(* the allocation request manager and the node ID selector.                *)
(*                                                                         *)
(* One Server runs on every replica of the cluster.  The Server itself     *)
(* holds no allocation state: everything it decides is read from the log   *)
(* of its replica's RaftCore.  RaftCore, AllocationRequestManager and      *)
(* NodeIDSelector live in other headers; they are modelled here by their   *)
(* documented contracts.                                                   *)
(***************************************************************************)
EXTENDS Integers, Sequences, FiniteSets, TLC

(***************************************************************************)
(* Bounds of the model.                                                    *)
(***************************************************************************)
\* Unique IDs of the allocatee devices are 1..NumUniqueIDs.
NumUniqueIDs == 3
\* Unicast node IDs are 1..MaxNodeID (127 on the real bus).
MaxNodeID == 2
\* Raft terms are 0..MaxTerm.
MaxTerm == 2

\* The replicas of the cluster (a cluster of three tolerates one failure).
Replicas == {"A", "B", "C"}

UniqueIDs == 1..NumUniqueIDs

\* NodeID(): the default-constructed node ID is the broadcast one; this is
\* the value that is not unicast.
NodeIDInvalid == 0

\* Every value a NodeID can take in the model.
NodeIDs == 0..MaxNodeID

\* NodeID::isUnicast()
isUnicast(node_id) == node_id \in 1..MaxNodeID

\* Server states of the Raft core that the Server can tell apart.
ServerStateFollower == "Follower"
ServerStateLeader == "Leader"

\* Return codes of the collaborators: negative means failure.
ResOk == 0
ResErr == -1
Results == {ResOk, ResErr}

\* The two messages handed to INode::registerInternalFailure.
FailAppend == "Raft log append new allocation"
FailBroadcast == "Dynamic allocation final broadcast"

VARIABLES
    currentTerm,   \* replica -> Raft term (RaftCore persistent state)
    serverState,   \* replica -> ServerStateFollower | ServerStateLeader
    log,           \* replica -> sequence of Entry (RaftCore log)
    commitIndex,   \* replica -> number of committed entries of its log
    announced,     \* every (unique_id, node_id) ever handed to
                   \* broadcastAllocationResponse by any replica (history)
    lastCall,      \* the handler call under observation, once it was made
    initCall       \* the init() call of a server: its inputs and what it did

vars == <<currentTerm, serverState, log, commitIndex, announced, lastCall, initCall>>

(***************************************************************************)
(* Plain data.                                                             *)
(***************************************************************************)
\* protocol::dynamic_node_id::server::Entry
Entry(term, unique_id, node_id) ==
    [term |-> term, unique_id |-> unique_id, node_id |-> node_id]

\* The (unique_id, node_id) pair of an allocation response.
Allocation(unique_id, node_id) == [unique_id |-> unique_id, node_id |-> node_id]

AllocationOf(entry) == Allocation(entry.unique_id, entry.node_id)

\* RaftCore::LogEntryInfo of the entry at index i of replica r's log.
LogEntryInfo(r, i) == [entry |-> log[r][i], committed |-> i <= commitIndex[r]]

\* LazyConstructor<LogEntryInfo> that was not constructed.
NotConstructed == [constructed |-> FALSE]

Constructed(info) ==
    [constructed |-> TRUE, entry |-> info.entry, committed |-> info.committed]

Max(S) == CHOOSE x \in S : \A y \in S : y <= x
Min(S) == CHOOSE x \in S : \A y \in S : x <= y

(***************************************************************************)
(* RaftCore, as the Server sees it.                                        *)
(***************************************************************************)
\* RaftCore::isLeader()
isLeader(r) == serverState[r] = ServerStateLeader

\* RaftCore::areAllLogEntriesCommitted()
areAllLogEntriesCommitted(r) == commitIndex[r] = Len(log[r])

\* RaftCore::traverseLogFromEndUntil(predicate): the info of the entry
\* nearest to the end of the log that satisfies the predicate, if any.  The
\* predicate is given by the indices of the entries it accepts.
traverseLogFromEndUntil(r, accepted) ==
    LET hits == accepted \cap (1..Len(log[r]))
    IN  IF hits = {} THEN NotConstructed
        ELSE Constructed(LogEntryInfo(r, Max(hits)))

\* Number of entries a log can hold: one per unicast node ID.
LogCapacity == MaxNodeID

\* RaftCore::appendLog(unique_id, node_id): the codes it may return.  It can
\* succeed only on a leader whose log has room, and it may fail anyway
\* (storage).
appendLogResults(r) ==
    IF isLeader(r) /\ Len(log[r]) < LogCapacity THEN Results ELSE {ResErr}

(***************************************************************************)
(* What one call of a Server handler does to its collaborators: the        *)
(* appendLog calls, the broadcastAllocationResponse calls and the          *)
(* registerInternalFailure calls, in order.                                *)
(***************************************************************************)
NoEffect == [appends |-> <<>>, broadcasts |-> <<>>, failures |-> <<>>]

\* One call with its arguments and the code it returned.
CallOf(unique_id, node_id, res) ==
    [unique_id |-> unique_id, node_id |-> node_id, res |-> res]

(***************************************************************************)
(* Server: the log predicates.                                             *)
(***************************************************************************)
\* Variant: the unique ID is compared with the entry's node ID.
UniqueIDLogPredicate_WrongField(unique_id, info) == info.entry.node_id = unique_id

\* Server::UniqueIDLogPredicate::operator()
UniqueIDLogPredicate(unique_id, info) == info.entry.unique_id = unique_id

\* Variant: the predicate compares the wrong field of the entry.
NodeIDLogPredicate_WrongField(node_id, info) == info.entry.unique_id = node_id

\* Server::NodeIDLogPredicate::operator()
NodeIDLogPredicate(node_id, info) == info.entry.node_id = node_id

(***************************************************************************)
(* Server: methods of IAllocationRequestHandler and IRaftLeaderMonitor,    *)
(* and the private methods they call.  A method that calls a collaborator  *)
(* is given as the set of effects it can have, one per value the           *)
(* collaborator may return.                                                *)
(***************************************************************************)
\* Variant: the check of the uncommitted entries is left out.
canPublishFollowupAllocationResponse_LeaderOnly(r) == isLeader(r)

\* Variant: the second condition is inverted.
canPublishFollowupAllocationResponse_Inverted(r) ==
    isLeader(r) /\ ~areAllLogEntriesCommitted(r)

\* Variant: either condition is enough.
canPublishFollowupAllocationResponse_Or(r) ==
    isLeader(r) \/ areAllLogEntriesCommitted(r)

\* Server::canPublishFollowupAllocationResponse()
canPublishFollowupAllocationResponse(r) ==
    isLeader(r) /\ areAllLogEntriesCommitted(r)

\* Variant: only committed entries count as taken.
isNodeIDTaken_CommittedOnly(r, node_id) ==
    traverseLogFromEndUntil(r,
        {i \in 1..Len(log[r]) : /\ NodeIDLogPredicate(node_id, LogEntryInfo(r, i))
                                /\ LogEntryInfo(r, i).committed}).constructed

\* Variant: only the last entry of the log is looked at.
isNodeIDTaken_LastEntryOnly(r, node_id) ==
    traverseLogFromEndUntil(r,
        {i \in {Len(log[r])} \ {0} : NodeIDLogPredicate(node_id, LogEntryInfo(r, i))}
    ).constructed

\* Server::isNodeIDTaken(node_id)
isNodeIDTaken(r, node_id) ==
    traverseLogFromEndUntil(r,
        {i \in 1..Len(log[r]) : NodeIDLogPredicate(node_id, LogEntryInfo(r, i))}
    ).constructed

\* NodeIDSelector::findFreeNodeID(preferred): the node IDs it may return.
\* The preferred one when it is a unicast ID that is not taken, else any
\* unicast ID that is not taken, else the invalid one.
findFreeNodeID(r, preferred_node_id) ==
    LET free == {n \in 1..MaxNodeID : ~isNodeIDTaken(r, n)}
    IN  IF isUnicast(preferred_node_id) /\ ~isNodeIDTaken(r, preferred_node_id)
        THEN {preferred_node_id}
        ELSE IF free = {} THEN {NodeIDInvalid} ELSE free

\* Variant: a failed broadcast is tried a second time.
tryPublishAllocationResult_Retry(entry) ==
    {[appends    |-> <<>>,
      broadcasts |-> <<CallOf(entry.unique_id, entry.node_id, ResOk)>>,
      failures   |-> <<>>],
     [appends    |-> <<>>,
      broadcasts |-> <<CallOf(entry.unique_id, entry.node_id, ResErr),
                       CallOf(entry.unique_id, entry.node_id, ResOk)>>,
      failures   |-> <<FailBroadcast>>]}

\* Server::tryPublishAllocationResult(entry); res is what
\* broadcastAllocationResponse returns.
tryPublishAllocationResult(entry) ==
    {[appends    |-> <<>>,
      broadcasts |-> <<CallOf(entry.unique_id, entry.node_id, res)>>,
      failures   |-> IF res < 0 THEN <<FailBroadcast>> ELSE <<>>]
     : res \in Results}

\* Variant: the preferred node ID is appended without asking the selector.
allocateNewNode_IgnoresSelector(r, unique_id, preferred_node_id) ==
    IF ~isUnicast(preferred_node_id)
    THEN {NoEffect}
    ELSE {[appends    |-> <<CallOf(unique_id, preferred_node_id, res)>>,
           broadcasts |-> <<>>,
           failures   |-> IF res < 0 THEN <<FailAppend>> ELSE <<>>]
          : res \in appendLogResults(r)}

\* Variant: a failed appendLog is not reported.
allocateNewNode_SilentFailure(r, unique_id, preferred_node_id) ==
    UNION {IF ~isUnicast(allocated_node_id)
           THEN {NoEffect}
           ELSE {[appends    |-> <<CallOf(unique_id, allocated_node_id, res)>>,
                  broadcasts |-> <<>>,
                  failures   |-> <<>>]
                 : res \in appendLogResults(r)}
           : allocated_node_id \in findFreeNodeID(r, preferred_node_id)}

\* Variant: what the selector returns is appended without the unicast test.
allocateNewNode_NoUnicastCheck(r, unique_id, preferred_node_id) ==
    UNION {{[appends    |-> <<CallOf(unique_id, allocated_node_id, res)>>,
             broadcasts |-> <<>>,
             failures   |-> IF res < 0 THEN <<FailAppend>> ELSE <<>>]
            : res \in appendLogResults(r)}
           : allocated_node_id \in findFreeNodeID(r, preferred_node_id)}

\* Variant: the new allocation is announced as soon as it is appended.
allocateNewNode_AnnouncesAtOnce(r, unique_id, preferred_node_id) ==
    UNION {IF ~isUnicast(allocated_node_id)
           THEN {NoEffect}
           ELSE {[appends    |-> <<CallOf(unique_id, allocated_node_id, res)>>,
                  broadcasts |-> IF res < 0 THEN <<>>
                                 ELSE <<CallOf(unique_id, allocated_node_id, ResOk)>>,
                  failures   |-> IF res < 0 THEN <<FailAppend>> ELSE <<>>]
                 : res \in appendLogResults(r)}
           : allocated_node_id \in findFreeNodeID(r, preferred_node_id)}

\* Server::allocateNewNode(unique_id, preferred_node_id); allocated_node_id
\* is what the selector returns and res what appendLog returns.
allocateNewNode(r, unique_id, preferred_node_id) ==
    UNION {IF ~isUnicast(allocated_node_id)
           THEN {NoEffect}
           ELSE {[appends    |-> <<CallOf(unique_id, allocated_node_id, res)>>,
                  broadcasts |-> <<>>,
                  failures   |-> IF res < 0 THEN <<FailAppend>> ELSE <<>>]
                 : res \in appendLogResults(r)}
           : allocated_node_id \in findFreeNodeID(r, preferred_node_id)}

\* Variant: an entry that is not committed yet does not stop a new allocation.
handleAllocationRequest_ReallocatesUncommitted(r, unique_id, preferred_node_id) ==
    LET result == traverseLogFromEndUntil(r,
            {i \in 1..Len(log[r]) : UniqueIDLogPredicate(unique_id, LogEntryInfo(r, i))})
    IN  IF result.constructed /\ result.committed
        THEN tryPublishAllocationResult(result.entry)
        ELSE IF isLeader(r)
             THEN allocateNewNode(r, unique_id, preferred_node_id)
             ELSE {NoEffect}

\* Variant: only the leader answers with an existing allocation.
handleAllocationRequest_LeaderOnlyPublish(r, unique_id, preferred_node_id) ==
    LET result == traverseLogFromEndUntil(r,
            {i \in 1..Len(log[r]) : UniqueIDLogPredicate(unique_id, LogEntryInfo(r, i))})
    IN  IF result.constructed
        THEN IF result.committed /\ isLeader(r)
             THEN tryPublishAllocationResult(result.entry)
             ELSE {NoEffect}
        ELSE IF isLeader(r)
             THEN allocateNewNode(r, unique_id, preferred_node_id)
             ELSE {NoEffect}

\* Variant: the committed flag of the entry found is not looked at.
handleAllocationRequest_PublishesUncommitted(r, unique_id, preferred_node_id) ==
    LET result == traverseLogFromEndUntil(r,
            {i \in 1..Len(log[r]) : UniqueIDLogPredicate(unique_id, LogEntryInfo(r, i))})
    IN  IF result.constructed
        THEN tryPublishAllocationResult(result.entry)
        ELSE IF isLeader(r)
             THEN allocateNewNode(r, unique_id, preferred_node_id)
             ELSE {NoEffect}

\* Variant: a new allocation is attempted without asking whether the
\* replica is leader.
handleAllocationRequest_NoLeaderCheck(r, unique_id, preferred_node_id) ==
    LET result == traverseLogFromEndUntil(r,
            {i \in 1..Len(log[r]) : UniqueIDLogPredicate(unique_id, LogEntryInfo(r, i))})
    IN  IF result.constructed
        THEN IF result.committed
             THEN tryPublishAllocationResult(result.entry)
             ELSE {NoEffect}
        ELSE allocateNewNode(r, unique_id, preferred_node_id)

\* Variant: a unicast preferred node ID replaces the committed one in the
\* answer.
handleAllocationRequest_PreferenceWins(r, unique_id, preferred_node_id) ==
    LET result == traverseLogFromEndUntil(r,
            {i \in 1..Len(log[r]) : UniqueIDLogPredicate(unique_id, LogEntryInfo(r, i))})
    IN  IF result.constructed
        THEN IF result.committed
             THEN tryPublishAllocationResult(
                      IF isUnicast(preferred_node_id)
                      THEN [result.entry EXCEPT !.node_id = preferred_node_id]
                      ELSE result.entry)
             ELSE {NoEffect}
        ELSE IF isLeader(r)
             THEN allocateNewNode(r, unique_id, preferred_node_id)
             ELSE {NoEffect}

\* Variant: the most recent committed match is answered with, whatever was
\* appended for the unique ID after it.
handleAllocationRequest_AnyCommittedMatch(r, unique_id, preferred_node_id) ==
    LET result == traverseLogFromEndUntil(r,
            {i \in 1..Len(log[r]) : UniqueIDLogPredicate(unique_id, LogEntryInfo(r, i))})
        older == traverseLogFromEndUntil(r,
            {i \in 1..Len(log[r]) : /\ UniqueIDLogPredicate(unique_id, LogEntryInfo(r, i))
                                    /\ LogEntryInfo(r, i).committed})
    IN  IF result.constructed
        THEN IF older.constructed
             THEN tryPublishAllocationResult(older.entry)
             ELSE {NoEffect}
        ELSE IF isLeader(r)
             THEN allocateNewNode(r, unique_id, preferred_node_id)
             ELSE {NoEffect}

\* Server::handleAllocationRequest(unique_id, preferred_node_id)
handleAllocationRequest(r, unique_id, preferred_node_id) ==
    LET result == traverseLogFromEndUntil(r,
            {i \in 1..Len(log[r]) : UniqueIDLogPredicate(unique_id, LogEntryInfo(r, i))})
    IN  IF result.constructed
        THEN IF result.committed
             THEN tryPublishAllocationResult(result.entry)
             ELSE {NoEffect}
        ELSE IF isLeader(r)
             THEN allocateNewNode(r, unique_id, preferred_node_id)
             ELSE {NoEffect}

\* Variant: the commit is not announced.
handleLogCommitOnLeader_NoPublish(entry) == {NoEffect}

\* Server::handleLogCommitOnLeader(entry)
handleLogCommitOnLeader(entry) == tryPublishAllocationResult(entry)

(***************************************************************************)
(* Applying a handler's effect to the state.                               *)
(***************************************************************************)
\* RaftCore::appendLog: the entries that the successful appendLog calls of an
\* effect add to r's log, each stamped with r's current term.
RECURSIVE AppendedEntries(_, _)
AppendedEntries(r, calls) ==
    IF calls = <<>> THEN <<>>
    ELSE (IF Head(calls).res >= 0
          THEN <<Entry(currentTerm[r], Head(calls).unique_id, Head(calls).node_id)>>
          ELSE <<>>) \o AppendedEntries(r, Tail(calls))

\* AllocationRequestManager::broadcastAllocationResponse: the allocations
\* handed to it by the calls of an effect.
BroadcastSet(calls) == {AllocationOf(calls[i]) : i \in 1..Len(calls)}

NoCall ==
    [op |-> "none", node |-> "none", unique_id |-> 0, node_id |-> 0,
     wasLeader |-> FALSE, logBefore |-> <<>>, commitBefore |-> 0,
     appends |-> <<>>, broadcasts |-> <<>>, failures |-> <<>>,
     result |-> FALSE]

\* The record of a handler call on replica r, taken in the state before it:
\* the arguments, what the replica's RaftCore held, and the effect.
CallRecord(op, r, unique_id, node_id, eff) ==
    [op |-> op, node |-> r, unique_id |-> unique_id, node_id |-> node_id,
     wasLeader |-> isLeader(r), logBefore |-> log[r],
     commitBefore |-> commitIndex[r],
     appends |-> eff.appends, broadcasts |-> eff.broadcasts,
     failures |-> eff.failures, result |-> FALSE]

\* The record of a call of a const method of the Server that returns bool.
QueryRecord(op, r, node_id, result) ==
    [CallRecord(op, r, 0, node_id, NoEffect) EXCEPT !.result = result]

\* A run is followed up to the handler call under observation; any call of
\* a run may be the observed one.
Running == lastCall = NoCall

Observe(observed, record) == lastCall' = IF observed THEN record ELSE NoCall

(***************************************************************************)
(* Server::init(cluster_size).  raft_res is what RaftCore::init returns    *)
(* and arm_res what AllocationRequestManager::init returns; started lists  *)
(* the collaborators whose init was called, in order, and passed is the    *)
(* cluster size handed to RaftCore::init.                                  *)
(***************************************************************************)
ClusterSizeUnknown == 0
ClusterSizes == {ClusterSizeUnknown, 1, 3, 5}
InitResults == {-2, -1, 0, 1}

InitOfRaftCore == "raft_core_"
InitOfRequestManager == "allocation_request_manager_"

\* Variant: the transport is initialized whatever the engine returned.
init_KeepsGoing(cluster_size, raft_res, arm_res) ==
    IF arm_res < 0
    THEN [started |-> <<InitOfRaftCore, InitOfRequestManager>>,
          passed |-> cluster_size, ret |-> arm_res]
    ELSE [started |-> <<InitOfRaftCore, InitOfRequestManager>>,
          passed |-> cluster_size, ret |-> IF raft_res < 0 THEN raft_res ELSE 0]

init(cluster_size, raft_res, arm_res) ==
    IF raft_res < 0
    THEN [started |-> <<InitOfRaftCore>>, passed |-> cluster_size, ret |-> raft_res]
    ELSE IF arm_res < 0
         THEN [started |-> <<InitOfRaftCore, InitOfRequestManager>>,
               passed |-> cluster_size, ret |-> arm_res]
         ELSE [started |-> <<InitOfRaftCore, InitOfRequestManager>>,
               passed |-> cluster_size, ret |-> 0]

\* The record of an init() call: what it was given, and, once it has
\* returned, what it did.
InitPending(cluster_size, raft_res, arm_res) ==
    [cluster_size |-> cluster_size, raft_res |-> raft_res, arm_res |-> arm_res,
     returned |-> FALSE, started |-> <<>>, passed |-> ClusterSizeUnknown,
     ret |-> 0]

InitReturned(cluster_size, raft_res, arm_res) ==
    [cluster_size |-> cluster_size, raft_res |-> raft_res, arm_res |-> arm_res,
     returned |-> TRUE,
     started |-> init(cluster_size, raft_res, arm_res).started,
     passed |-> init(cluster_size, raft_res, arm_res).passed,
     ret |-> init(cluster_size, raft_res, arm_res).ret]

\* The servers that take part in a run have been initialized with success.
Initialized == InitReturned(ClusterSizeUnknown, ResOk, ResOk)

(***************************************************************************)
(* Initial state: every replica is a follower with an empty log.           *)
(***************************************************************************)
Init ==
    /\ currentTerm = [r \in Replicas |-> 0]
    /\ serverState = [r \in Replicas |-> ServerStateFollower]
    /\ log = [r \in Replicas |-> <<>>]
    /\ commitIndex = [r \in Replicas |-> 0]
    /\ announced = {}
    /\ lastCall = NoCall
    /\ initCall = Initialized

(***************************************************************************)
(* The request transport delivers an allocation request to replica r.      *)
(***************************************************************************)
HandleAllocationRequest(r, unique_id, preferred_node_id, observed) ==
    /\ \E eff \in handleAllocationRequest(r, unique_id, preferred_node_id) :
          /\ log' = [log EXCEPT ![r] = log[r] \o AppendedEntries(r, eff.appends)]
          /\ announced' = announced \cup BroadcastSet(eff.broadcasts)
          /\ Observe(observed, CallRecord("handleAllocationRequest", r, unique_id,
                                          preferred_node_id, eff))
    /\ UNCHANGED <<currentTerm, serverState, commitIndex>>

(***************************************************************************)
(* The consensus engine (RaftCore and its cluster): leader election, log   *)
(* replication and commit.  An election and an AppendEntries exchange are  *)
(* each taken as one step; a partition shows as exchanges that do not      *)
(* happen.                                                                 *)
(***************************************************************************)
Quorums == {Q \in SUBSET Replicas : 2 * Cardinality(Q) > Cardinality(Replicas)}

LastTerm(l) == IF Len(l) = 0 THEN 0 ELSE l[Len(l)].term

\* Raft's election restriction: a's log is at least as up to date as b's.
UpToDate(a, b) ==
    \/ LastTerm(log[a]) > LastTerm(log[b])
    \/ LastTerm(log[a]) = LastTerm(log[b]) /\ Len(log[a]) >= Len(log[b])

IsPrefix(s, t) == Len(s) <= Len(t) /\ SubSeq(t, 1, Len(s)) = s

\* Replica r wins the election of the next term with the votes of quorum Q.
\* Every voter adopts the term; a voter that was leader steps down.
BecomeLeader(r, Q) ==
    /\ r \in Q
    /\ currentTerm[r] < MaxTerm
    /\ \A q \in Q : currentTerm[q] <= currentTerm[r] /\ UpToDate(r, q)
    /\ currentTerm' = [q \in Replicas |->
                          IF q \in Q THEN currentTerm[r] + 1 ELSE currentTerm[q]]
    /\ serverState' = [q \in Replicas |->
                          IF q = r THEN ServerStateLeader
                          ELSE IF q \in Q THEN ServerStateFollower
                          ELSE serverState[q]]
    /\ UNCHANGED <<log, commitIndex, announced, lastCall>>

\* Follower f accepts an AppendEntries request of leader l that carries l's
\* log up to index k: f drops what conflicts with it and learns l's commit
\* index.
Replicate(l, f, k) ==
    /\ l # f
    /\ isLeader(l)
    /\ currentTerm[f] <= currentTerm[l]
    /\ k \in 0..Len(log[l])
    /\ LET sent == SubSeq(log[l], 1, k)
           newLog == IF IsPrefix(sent, log[f]) THEN log[f] ELSE sent
       IN  /\ log' = [log EXCEPT ![f] = newLog]
           /\ commitIndex' = [commitIndex EXCEPT ![f] =
                                 Max({commitIndex[f], Min({commitIndex[l], k})})]
    /\ currentTerm' = [currentTerm EXCEPT ![f] = currentTerm[l]]
    /\ serverState' = [serverState EXCEPT ![f] = ServerStateFollower]
    /\ UNCHANGED <<announced, lastCall>>

\* Leader l hears of a higher term from replica f and steps down.
StepDown(l, f) ==
    /\ isLeader(l)
    /\ currentTerm[f] > currentTerm[l]
    /\ currentTerm' = [currentTerm EXCEPT ![l] = currentTerm[f]]
    /\ serverState' = [serverState EXCEPT ![l] = ServerStateFollower]
    /\ UNCHANGED <<log, commitIndex, announced, lastCall>>

\* The next entry of leader l's log can be committed: an entry of l's own
\* term at or after it is stored by a quorum.
CanCommitNext(l) ==
    /\ isLeader(l)
    /\ commitIndex[l] < Len(log[l])
    /\ \E m \in (commitIndex[l] + 1)..Len(log[l]) :
          /\ log[l][m].term = currentTerm[l]
          /\ \E Q \in Quorums :
                /\ l \in Q
                /\ \A q \in Q : IsPrefix(SubSeq(log[l], 1, m), log[q])

\* Leader l commits the next entry of its log; RaftCore then calls
\* IRaftLeaderMonitor::handleLogCommitOnLeader with that entry.
LogCommitOnLeader(l, observed) ==
    /\ CanCommitNext(l)
    /\ LET entry == log[l][commitIndex[l] + 1]
       IN  \E eff \in handleLogCommitOnLeader(entry) :
              /\ commitIndex' = [commitIndex EXCEPT ![l] = commitIndex[l] + 1]
              /\ log' = [log EXCEPT ![l] = log[l] \o AppendedEntries(l, eff.appends)]
              /\ announced' = announced \cup BroadcastSet(eff.broadcasts)
              /\ Observe(observed, CallRecord("handleLogCommitOnLeader", l,
                                              entry.unique_id, entry.node_id, eff))
    /\ UNCHANGED <<currentTerm, serverState>>

(***************************************************************************)
(* The steps of the system.  Each is taken while the run is followed.      *)
(***************************************************************************)
RequestArrives ==
    /\ Running
    /\ UNCHANGED initCall
    /\ \E r \in Replicas, u \in UniqueIDs, p \in NodeIDs, observed \in BOOLEAN :
          HandleAllocationRequest(r, u, p, observed)

EntryCommits ==
    /\ Running
    /\ UNCHANGED initCall
    /\ \E l \in Replicas, observed \in BOOLEAN : LogCommitOnLeader(l, observed)

Election ==
    /\ Running
    /\ UNCHANGED initCall
    /\ \E r \in Replicas, Q \in Quorums : BecomeLeader(r, Q)

AppendEntries ==
    /\ Running
    /\ UNCHANGED initCall
    /\ \E l \in Replicas, f \in Replicas, k \in 0..LogCapacity : Replicate(l, f, k)

HigherTermSeen ==
    /\ Running
    /\ UNCHANGED initCall
    /\ \E l \in Replicas, f \in Replicas : StepDown(l, f)

Next ==
    \/ RequestArrives
    \/ EntryCommits
    \/ Election
    \/ AppendEntries
    \/ HigherTermSeen

Spec == Init /\ [][Next]_vars

(***************************************************************************)
(* Start-up of one server: constructed, then init() is called once with    *)
(* collaborators that may fail.                                            *)
(***************************************************************************)
ConstructedInit ==
    /\ currentTerm = [r \in Replicas |-> 0]
    /\ serverState = [r \in Replicas |-> ServerStateFollower]
    /\ log = [r \in Replicas |-> <<>>]
    /\ commitIndex = [r \in Replicas |-> 0]
    /\ announced = {}
    /\ lastCall = NoCall
    /\ \E cluster_size \in ClusterSizes, raft_res \in InitResults,
          arm_res \in InitResults :
          initCall = InitPending(cluster_size, raft_res, arm_res)

ServerInit ==
    /\ ~initCall.returned
    /\ initCall' = InitReturned(initCall.cluster_size, initCall.raft_res,
                                initCall.arm_res)
    /\ UNCHANGED <<currentTerm, serverState, log, commitIndex, announced, lastCall>>

StartupNext == ServerInit

StartupSpec == ConstructedInit /\ [][StartupNext]_vars

(***************************************************************************)
(* One server over any log.  What a handler does is a function of what     *)
(* the replica's RaftCore holds; here RaftCore holds any log up to its     *)
(* capacity, with any commit index and either role, also the logs that the *)
(* engine of Spec never produces (two entries for one unique ID).          *)
(***************************************************************************)
Subject == "A"

AnyEntries == {Entry(1, u, n) : u \in UniqueIDs, n \in 1..MaxNodeID}
AnyLogs == UNION {[1..n -> AnyEntries] : n \in 0..LogCapacity}

AnyLogInit ==
    /\ \E l \in AnyLogs, c \in 0..LogCapacity,
          st \in {ServerStateFollower, ServerStateLeader} :
          /\ c <= Len(l)
          /\ log = [r \in Replicas |-> IF r = Subject THEN l ELSE <<>>]
          /\ commitIndex = [r \in Replicas |-> IF r = Subject THEN c ELSE 0]
          /\ serverState = [r \in Replicas |->
                               IF r = Subject THEN st ELSE ServerStateFollower]
    /\ currentTerm = [r \in Replicas |-> IF r = Subject THEN 1 ELSE 0]
    /\ announced = {}
    /\ lastCall = NoCall
    /\ initCall = Initialized

\* The selector asks the server whether a node ID is taken.
IsNodeIDTakenQuery(r, node_id) ==
    /\ lastCall' = QueryRecord("isNodeIDTaken", r, node_id, isNodeIDTaken(r, node_id))
    /\ UNCHANGED <<currentTerm, serverState, log, commitIndex, announced, initCall>>

RequestOnAnyLog ==
    /\ Running
    /\ UNCHANGED initCall
    /\ \E u \in UniqueIDs, p \in NodeIDs, observed \in BOOLEAN :
          HandleAllocationRequest(Subject, u, p, observed)

SelectorAsks ==
    /\ Running
    /\ \E node_id \in NodeIDs : IsNodeIDTakenQuery(Subject, node_id)

AnyLogNext ==
    \/ RequestOnAnyLog
    \/ SelectorAsks

AnyLogSpec == AnyLogInit /\ [][AnyLogNext]_vars

(***************************************************************************)
(* Vocabulary of the properties.  These read the observed call and the     *)
(* logs directly; they use none of the Server's methods.                   *)
(***************************************************************************)
IsRequest == lastCall.op = "handleAllocationRequest"
IsCommit == lastCall.op = "handleLogCommitOnLeader"

NodeIDsOf(l) == {l[i].node_id : i \in 1..Len(l)}
UniqueIDsOf(l) == {l[i].unique_id : i \in 1..Len(l)}

\* Index of the most recently appended entry of l for unique_id (0 if none).
LastMatch(l, unique_id) ==
    Max({0} \cup {i \in 1..Len(l) : l[i].unique_id = unique_id})

\* A node ID that can be given out: a unicast one that no entry of l holds.
IsFree(l, node_id) == isUnicast(node_id) /\ node_id \notin NodeIDsOf(l)

\* The allocations committed on some replica.
CommittedAllocations ==
    UNION {{AllocationOf(log[r][i]) : i \in 1..commitIndex[r]} : r \in Replicas}

TwoLeaders ==
    \E a \in Replicas, b \in Replicas : a # b /\ isLeader(a) /\ isLeader(b)

(***************************************************************************)
(* C1. No two broadcasts, by whatever replica and after whatever           *)
(* interleaving of requests, commits and leadership changes, carry the     *)
(* same node ID for two different unique IDs.                              *)
(***************************************************************************)
C1_NodeIDNeverSharedByTwoDevices ==
    \A a \in announced, b \in announced :
        a.node_id = b.node_id => a.unique_id = b.unique_id

\* Two devices were announced while two replicas believe they are leader.
C1_Witness == Cardinality(announced) >= 2 /\ TwoLeaders

(***************************************************************************)
(* C2. All broadcasts for one unique ID, by whatever replica and whether   *)
(* made by handleAllocationRequest or by handleLogCommitOnLeader, carry    *)
(* the same node ID.                                                       *)
(***************************************************************************)
C2_DeviceAlwaysGetsSameNodeID ==
    \A a \in announced, b \in announced :
        a.unique_id = b.unique_id => a.node_id = b.node_id

\* A replica that is not leader answers a request with an allocation that
\* it did not commit itself, while another replica is leader.
C2_Witness ==
    /\ IsRequest
    /\ ~lastCall.wasLeader
    /\ Len(lastCall.broadcasts) = 1
    /\ lastCall.node_id # lastCall.broadcasts[1].node_id
    /\ \E l \in Replicas : l # lastCall.node /\ isLeader(l)

(***************************************************************************)
(* C3. A request for a unique ID that has no entry in the local log, on a  *)
(* leader with a free node ID left, makes exactly one appendLog call and   *)
(* no broadcast; the appended node ID is the preferred one when that is    *)
(* free, and otherwise another one that is free.                           *)
(***************************************************************************)
C3_UnseenOnLeaderAppendsOnce ==
    ( /\ IsRequest
      /\ lastCall.unique_id \notin UniqueIDsOf(lastCall.logBefore)
      /\ lastCall.wasLeader
      /\ \E n \in NodeIDs : IsFree(lastCall.logBefore, n) )
    => /\ Len(lastCall.appends) = 1
       /\ lastCall.broadcasts = <<>>
       /\ lastCall.appends[1].unique_id = lastCall.unique_id
       /\ IF IsFree(lastCall.logBefore, lastCall.node_id)
          THEN lastCall.appends[1].node_id = lastCall.node_id
          ELSE /\ lastCall.appends[1].node_id # lastCall.node_id
               /\ IsFree(lastCall.logBefore, lastCall.appends[1].node_id)

\* The preferred node ID is taken and another one is appended.
C3_Witness ==
    /\ IsRequest
    /\ lastCall.wasLeader
    /\ lastCall.unique_id \notin UniqueIDsOf(lastCall.logBefore)
    /\ lastCall.node_id \in NodeIDsOf(lastCall.logBefore)
    /\ Len(lastCall.appends) = 1
    /\ lastCall.appends[1].res >= 0
    /\ Len(log[lastCall.node]) = Len(lastCall.logBefore) + 1

(***************************************************************************)
(* C4. A request for a unique ID whose most recent entry (unique_id, n) is *)
(* committed makes exactly one broadcast of (unique_id, n) and no          *)
(* appendLog call, whatever the preferred node ID and on a leader as on a  *)
(* follower.                                                               *)
(***************************************************************************)
C4_CommittedIsReannounced ==
    ( /\ IsRequest
      /\ LastMatch(lastCall.logBefore, lastCall.unique_id) \in 1..lastCall.commitBefore )
    => /\ Len(lastCall.broadcasts) = 1
       /\ AllocationOf(lastCall.broadcasts[1]) =
             AllocationOf(lastCall.logBefore[LastMatch(lastCall.logBefore,
                                                       lastCall.unique_id)])
       /\ lastCall.broadcasts[1].unique_id = lastCall.unique_id
       /\ lastCall.appends = <<>>

\* On a follower, with a preferred node ID that is free and differs from n.
C4_Witness ==
    /\ IsRequest
    /\ ~lastCall.wasLeader
    /\ LastMatch(lastCall.logBefore, lastCall.unique_id) \in 1..lastCall.commitBefore
    /\ IsFree(lastCall.logBefore, lastCall.node_id)
    /\ Len(lastCall.broadcasts) = 1

(***************************************************************************)
(* C5. A request for a unique ID whose entry is not committed yet makes no *)
(* appendLog call and no broadcast and leaves the log as it was (so that   *)
(* repeating it changes nothing), on a leader as on a follower.            *)
(***************************************************************************)
C5_UncommittedIsIgnored ==
    ( /\ IsRequest
      /\ LastMatch(lastCall.logBefore, lastCall.unique_id) > lastCall.commitBefore )
    => /\ lastCall.appends = <<>>
       /\ lastCall.broadcasts = <<>>
       /\ log[lastCall.node] = lastCall.logBefore
       /\ commitIndex[lastCall.node] = lastCall.commitBefore

\* On a leader that still has a free node ID, asked for a free one.
C5_Witness ==
    /\ IsRequest
    /\ lastCall.wasLeader
    /\ LastMatch(lastCall.logBefore, lastCall.unique_id) > lastCall.commitBefore
    /\ IsFree(lastCall.logBefore, lastCall.node_id)
    /\ lastCall.appends = <<>>

(***************************************************************************)
(* C6. A request for a unique ID that has no entry in the local log, on a  *)
(* replica that is not leader, makes no appendLog call and no broadcast    *)
(* and leaves the log as it was.                                           *)
(***************************************************************************)
C6_UnseenOnFollowerIsIgnored ==
    ( /\ IsRequest
      /\ lastCall.unique_id \notin UniqueIDsOf(lastCall.logBefore)
      /\ ~lastCall.wasLeader )
    => /\ lastCall.appends = <<>>
       /\ lastCall.broadcasts = <<>>
       /\ log[lastCall.node] = lastCall.logBefore

\* On a follower whose log holds other allocations and where the preferred
\* node ID is free.
C6_Witness ==
    /\ IsRequest
    /\ ~lastCall.wasLeader
    /\ lastCall.logBefore # <<>>
    /\ lastCall.unique_id \notin UniqueIDsOf(lastCall.logBefore)
    /\ IsFree(lastCall.logBefore, lastCall.node_id)
    /\ lastCall.appends = <<>>

(***************************************************************************)
(* C7. canPublishFollowupAllocationResponse() is true when the replica is  *)
(* leader and all its log entries are committed, and false in each of the  *)
(* other three combinations.                                               *)
(***************************************************************************)
C7_FollowupTruthTable ==
    \A r \in Replicas :
        /\ (isLeader(r) /\ areAllLogEntriesCommitted(r))
              => canPublishFollowupAllocationResponse(r)
        /\ (isLeader(r) /\ ~areAllLogEntriesCommitted(r))
              => ~canPublishFollowupAllocationResponse(r)
        /\ (~isLeader(r) /\ areAllLogEntriesCommitted(r))
              => ~canPublishFollowupAllocationResponse(r)
        /\ (~isLeader(r) /\ ~areAllLogEntriesCommitted(r))
              => ~canPublishFollowupAllocationResponse(r)

\* Three of the combinations in one state: a leader with a log that is all
\* committed (true), a second leader with an uncommitted entry (false) and
\* a follower with an uncommitted entry (false).
C7_Witness ==
    \E a \in Replicas, b \in Replicas, c \in Replicas :
        /\ isLeader(a) /\ areAllLogEntriesCommitted(a) /\ log[a] # <<>>
        /\ isLeader(b) /\ ~areAllLogEntriesCommitted(b)
        /\ ~isLeader(c) /\ ~areAllLogEntriesCommitted(c)

(***************************************************************************)
(* C8. Every call of handleLogCommitOnLeader(entry) makes exactly one      *)
(* broadcast, of (entry.unique_id, entry.node_id), and no appendLog call.  *)
(***************************************************************************)
C8_CommitBroadcastsOnce ==
    IsCommit
    => /\ Len(lastCall.broadcasts) = 1
       /\ AllocationOf(lastCall.broadcasts[1]) =
             AllocationOf(lastCall.logBefore[lastCall.commitBefore + 1])
       /\ AllocationOf(lastCall.broadcasts[1]) =
             Allocation(lastCall.unique_id, lastCall.node_id)
       /\ lastCall.appends = <<>>
       /\ log[lastCall.node] = lastCall.logBefore

\* The entry was appended in an earlier term by another replica, which
\* still believes it is the leader of that term: the allocation was asked
\* of that replica, not of the one that commits it.
C8_Witness ==
    /\ IsCommit
    /\ \E other \in Replicas :
          /\ other # lastCall.node
          /\ isLeader(other)
          /\ currentTerm[other] = lastCall.logBefore[lastCall.commitBefore + 1].term
          /\ currentTerm[other] < currentTerm[lastCall.node]

(***************************************************************************)
(* C9. The node ID that handleAllocationRequest appends is held by no      *)
(* entry, committed or not, that the local log had when it was selected;   *)
(* and the entries of every log have pairwise distinct node IDs.           *)
(***************************************************************************)
C9_AppendedNodeIDIsNew ==
    /\ IsRequest =>
          \A i \in 1..Len(lastCall.appends) :
              lastCall.appends[i].node_id \notin NodeIDsOf(lastCall.logBefore)
    /\ \A r \in Replicas : \A i \in 1..Len(log[r]), j \in 1..Len(log[r]) :
          log[r][i].node_id = log[r][j].node_id => i = j

\* The preferred node ID is held by an entry that is not committed, and
\* the call appends another one.
C9_Witness ==
    /\ IsRequest
    /\ lastCall.commitBefore = 0
    /\ lastCall.node_id \in NodeIDsOf(lastCall.logBefore)
    /\ Len(lastCall.appends) = 1
    /\ lastCall.appends[1].res >= 0
    /\ Len(log[lastCall.node]) = 2

CannotReachMajority(r) ==
    ~\E Q \in Quorums : r \in Q /\ \A q \in Q : currentTerm[q] <= currentTerm[r]

C11_AsClaimed ==
    /\ \A a \in Replicas, b \in Replicas :
          (a # b /\ isLeader(a) /\ isLeader(b) /\ CannotReachMajority(a))
             => ~canPublishFollowupAllocationResponse(a)
    /\ \A a \in Replicas, b \in Replicas :
          (a # b /\ isLeader(a) /\ isLeader(b))
             => ~(canPublishFollowupAllocationResponse(a)
                  /\ canPublishFollowupAllocationResponse(b))

(***************************************************************************)
(* C11, amended.  Of two replicas that believe they are leader, the one    *)
(* that cannot reach a majority answers false as long as its log holds an  *)
(* entry that is not committed; both can answer true only while the log    *)
(* of each is committed to its end.                                        *)
(***************************************************************************)
C11_SplitLeaderWithPendingEntryIsSilent ==
    \A a \in Replicas, b \in Replicas :
        (a # b /\ isLeader(a) /\ isLeader(b))
           => /\ (CannotReachMajority(a) /\ commitIndex[a] < Len(log[a]))
                    => ~canPublishFollowupAllocationResponse(a)
              /\ (canPublishFollowupAllocationResponse(a)
                  /\ canPublishFollowupAllocationResponse(b))
                    => (commitIndex[a] = Len(log[a]) /\ commitIndex[b] = Len(log[b]))

\* A stale leader with an entry it cannot commit is silent while the
\* leader of the later term answers true.
C11_Witness ==
    \E a \in Replicas, b \in Replicas :
        /\ a # b /\ isLeader(a) /\ isLeader(b)
        /\ CannotReachMajority(a)
        /\ commitIndex[a] < Len(log[a])
        /\ ~canPublishFollowupAllocationResponse(a)
        /\ canPublishFollowupAllocationResponse(b)

(***************************************************************************)
(* C12. When appendLog fails inside handleAllocationRequest, or            *)
(* broadcastAllocationResponse fails inside handleAllocationRequest or     *)
(* handleLogCommitOnLeader, the failure is reported exactly once, the call *)
(* makes no other append or broadcast, and nothing is left behind for a    *)
(* later retry: the log is as it was before the call.                      *)
(***************************************************************************)
AppendFailed == \E i \in 1..Len(lastCall.appends) : lastCall.appends[i].res < 0
BroadcastFailed == \E i \in 1..Len(lastCall.broadcasts) : lastCall.broadcasts[i].res < 0

C12_FailureReportedOnceAndAbandoned ==
    /\ (IsRequest /\ AppendFailed)
          => /\ lastCall.failures = <<FailAppend>>
             /\ Len(lastCall.appends) = 1
             /\ lastCall.broadcasts = <<>>
             /\ log[lastCall.node] = lastCall.logBefore
    /\ ((IsRequest \/ IsCommit) /\ BroadcastFailed)
          => /\ lastCall.failures = <<FailBroadcast>>
             /\ Len(lastCall.broadcasts) = 1
             /\ lastCall.appends = <<>>
             /\ log[lastCall.node] = lastCall.logBefore

\* appendLog fails on a leader whose log still has room.
C12_Witness ==
    /\ IsRequest
    /\ lastCall.wasLeader
    /\ AppendFailed
    /\ Len(lastCall.logBefore) < LogCapacity
    /\ lastCall.failures = <<FailAppend>>

(***************************************************************************)
(* C13. On a leader, for a unique ID with no entry in the log, when no     *)
(* node ID is free (the selector returns the invalid node ID),             *)
(* handleAllocationRequest appends nothing, broadcasts nothing, reports no *)
(* failure and leaves the log unchanged.                                   *)
(***************************************************************************)
NoNodeIDFree(l) == \A n \in 1..MaxNodeID : ~IsFree(l, n)

C13_NothingFreeDoesNothing ==
    (/\ IsRequest
     /\ lastCall.wasLeader
     /\ lastCall.unique_id \notin UniqueIDsOf(lastCall.logBefore)
     /\ NoNodeIDFree(lastCall.logBefore))
       => /\ lastCall.appends = <<>>
          /\ lastCall.broadcasts = <<>>
          /\ lastCall.failures = <<>>
          /\ log[lastCall.node] = lastCall.logBefore

C13_Witness ==
    /\ IsRequest
    /\ lastCall.wasLeader
    /\ lastCall.unique_id \notin UniqueIDsOf(lastCall.logBefore)
    /\ NoNodeIDFree(lastCall.logBefore)
    /\ isUnicast(lastCall.node_id)
    /\ lastCall.appends = <<>>

(***************************************************************************)
(* C14. init() initializes the consensus engine first and the request      *)
(* transport second.  If the engine's init fails the transport's init is   *)
(* not started and the engine's error is returned; if the transport's init *)
(* fails its error is returned; success is returned only when both         *)
(* succeeded.                                                              *)
(***************************************************************************)
C14_InitOrderAndErrors ==
    initCall.returned
       => /\ Len(initCall.started) >= 1
          /\ initCall.started[1] = InitOfRaftCore
          /\ initCall.passed = initCall.cluster_size
          /\ initCall.raft_res < 0
                => /\ initCall.started = <<InitOfRaftCore>>
                   /\ initCall.ret = initCall.raft_res
          /\ (initCall.raft_res >= 0 /\ initCall.arm_res < 0)
                => /\ initCall.started = <<InitOfRaftCore, InitOfRequestManager>>
                   /\ initCall.ret = initCall.arm_res
          /\ (initCall.ret >= 0)
                <=> (initCall.raft_res >= 0 /\ initCall.arm_res >= 0)

\* The engine fails while the transport would have succeeded.
C14_Witness ==
    /\ initCall.returned
    /\ initCall.raft_res < 0
    /\ initCall.arm_res >= 0
    /\ initCall.cluster_size # ClusterSizeUnknown
    /\ initCall.started = <<InitOfRaftCore>>
    /\ initCall.ret = initCall.raft_res

(***************************************************************************)
(* C15. handleAllocationRequest for a unique ID whose entry is committed   *)
(* is idempotent: whatever the preferred node ID, the call broadcasts the  *)
(* committed (unique_id, node_id) and appends nothing, and after any step  *)
(* of the system, a call of the handler included, it would do exactly the  *)
(* same again.                                                             *)
(***************************************************************************)
\* What a call for unique_id on r would append and broadcast, over every
\* preferred node ID and every result of the collaborators.
Outputs(r, unique_id) ==
    {[appends    |-> eff.appends,
      broadcasts |-> [i \in 1..Len(eff.broadcasts) |-> AllocationOf(eff.broadcasts[i])]]
     : eff \in UNION {handleAllocationRequest(r, unique_id, p) : p \in NodeIDs}}

HasCommittedEntry(r, unique_id) ==
    LastMatch(log[r], unique_id) \in 1..commitIndex[r]

\* The one output of a call for a unique ID whose last entry on r is
\* committed.
Reannouncement(r, unique_id) ==
    [appends    |-> <<>>,
     broadcasts |-> <<Allocation(unique_id,
                                 log[r][LastMatch(log[r], unique_id)].node_id)>>]

\* What the observed call appended and broadcast.
ObservedOutput ==
    [appends    |-> lastCall.appends,
     broadcasts |-> [i \in 1..Len(lastCall.broadcasts) |->
                        AllocationOf(lastCall.broadcasts[i])]]

C15_CommittedAnswerIsIdempotent ==
    \* before any call: the answer is the committed allocation, the one
    \* that every earlier broadcast for the unique ID carried
    /\ [](Running
            => \A r \in Replicas, u \in UniqueIDs :
                  HasCommittedEntry(r, u)
                     => /\ Outputs(r, u) = {Reannouncement(r, u)}
                        /\ \A a \in announced :
                              a.unique_id = u
                                 => <<a>> = Reannouncement(r, u).broadcasts)
    \* after a call: it gave that answer, left the log as it was, and a
    \* second call would give the answer again
    /\ []((IsRequest
           /\ LastMatch(lastCall.logBefore, lastCall.unique_id)
                 \in 1..lastCall.commitBefore)
            => /\ log[lastCall.node] = lastCall.logBefore
               /\ commitIndex[lastCall.node] = lastCall.commitBefore
               /\ ObservedOutput = Reannouncement(lastCall.node, lastCall.unique_id)
               /\ Outputs(lastCall.node, lastCall.unique_id) = {ObservedOutput})
    \* at any later time: a committed entry stays where it is
    /\ [][\A r \in Replicas :
             /\ commitIndex'[r] >= commitIndex[r]
             /\ SubSeq(log'[r], 1, commitIndex[r]) = SubSeq(log[r], 1, commitIndex[r])]_vars

\* An observed call on a leader answers with the committed node ID although
\* another, unicast, node ID was preferred, and the same allocation had
\* been broadcast before.
C15_Witness ==
    /\ IsRequest
    /\ lastCall.wasLeader
    /\ LastMatch(lastCall.logBefore, lastCall.unique_id) \in 1..lastCall.commitBefore
    /\ isUnicast(lastCall.node_id)
    /\ lastCall.node_id #
          lastCall.logBefore[LastMatch(lastCall.logBefore, lastCall.unique_id)].node_id
    /\ Len(lastCall.broadcasts) = 1
    /\ log[lastCall.node] = lastCall.logBefore

(***************************************************************************)
(* C16. An entry is appended only by handleAllocationRequest, only on a    *)
(* replica that believes it is leader and only for a unique ID that has no *)
(* entry, committed or not, in the local log; hence no log ever holds two  *)
(* entries for one unique ID.                                              *)
(***************************************************************************)
C16_OneEntryPerUniqueID ==
    /\ lastCall.appends # <<>>
          => /\ IsRequest
             /\ lastCall.wasLeader
             /\ lastCall.unique_id \notin UniqueIDsOf(lastCall.logBefore)
             /\ \A i \in 1..Len(lastCall.appends) :
                   lastCall.appends[i].unique_id = lastCall.unique_id
    /\ \A r \in Replicas :
          \A i \in 1..Len(log[r]), j \in 1..Len(log[r]) :
              log[r][i].unique_id = log[r][j].unique_id => i = j

\* A second device is appended to a leader's log.
C16_Witness ==
    /\ IsRequest
    /\ lastCall.wasLeader
    /\ Len(lastCall.logBefore) = 1
    /\ Len(log[lastCall.node]) = 2
    /\ log[lastCall.node][2].unique_id = lastCall.unique_id
    /\ log[lastCall.node][1].unique_id # lastCall.unique_id

(***************************************************************************)
(* C17. After handleAllocationRequest has appended an entry on a leader,   *)
(* canPublishFollowupAllocationResponse() is false on that replica, though *)
(* it still believes it is leader, and it stays false over every step that *)
(* neither commits the entry nor removes it from the log.                  *)
(***************************************************************************)
\* Entry i of r's log is the same after the step and still not committed.
StillPending(r, i) ==
    /\ Len(log'[r]) >= i
    /\ log'[r][i] = log[r][i]
    /\ commitIndex'[r] < i

C17_SilentUntilCommitted ==
    /\ []((IsRequest /\ \E i \in 1..Len(lastCall.appends) : lastCall.appends[i].res >= 0)
            => /\ isLeader(lastCall.node)
               /\ ~canPublishFollowupAllocationResponse(lastCall.node))
    /\ [][\A r \in Replicas :
             \A i \in (commitIndex[r] + 1)..Len(log[r]) :
                 StillPending(r, i) => ~canPublishFollowupAllocationResponse(r)']_vars

\* Before the call the leader could publish; the call appends, and the
\* leader, still leader, can no longer.
C17_Witness ==
    /\ IsRequest
    /\ lastCall.wasLeader
    /\ lastCall.commitBefore = Len(lastCall.logBefore)
    /\ Len(log[lastCall.node]) = Len(lastCall.logBefore) + 1
    /\ isLeader(lastCall.node)
    /\ ~canPublishFollowupAllocationResponse(lastCall.node)

(***************************************************************************)
(* C18. When the log holds more than one entry for the requested unique    *)
(* ID, handleAllocationRequest decides from the most recently appended of  *)
(* them alone: it broadcasts that entry's node ID if the entry is          *)
(* committed and does nothing if it is not, whatever the older entries     *)
(* for the unique ID are.                                                  *)
(***************************************************************************)
Matches(l, unique_id) == {i \in 1..Len(l) : l[i].unique_id = unique_id}

C18_LastMatchDecides ==
    (IsRequest /\ Cardinality(Matches(lastCall.logBefore, lastCall.unique_id)) > 1)
       => LET last == LastMatch(lastCall.logBefore, lastCall.unique_id)
          IN  /\ lastCall.appends = <<>>
              /\ log[lastCall.node] = lastCall.logBefore
              /\ IF last <= lastCall.commitBefore
                 THEN /\ Len(lastCall.broadcasts) = 1
                      /\ AllocationOf(lastCall.broadcasts[1])
                            = AllocationOf(lastCall.logBefore[last])
                 ELSE /\ lastCall.broadcasts = <<>>
                      /\ lastCall.failures = <<>>

\* An older entry for the unique ID is committed with another node ID, the
\* most recent one is not committed, and the call does nothing.
C18_Witness ==
    /\ IsRequest
    /\ \E i \in Matches(lastCall.logBefore, lastCall.unique_id) :
          /\ i <= lastCall.commitBefore
          /\ i < LastMatch(lastCall.logBefore, lastCall.unique_id)
          /\ lastCall.logBefore[i].node_id #
                lastCall.logBefore[LastMatch(lastCall.logBefore,
                                             lastCall.unique_id)].node_id
    /\ LastMatch(lastCall.logBefore, lastCall.unique_id) > lastCall.commitBefore
    /\ lastCall.broadcasts = <<>>
    /\ lastCall.appends = <<>>

(***************************************************************************)
(* C19. isNodeIDTaken(node_id) is true exactly when some entry of the      *)
(* local log, committed or not, has that node ID, and evaluating it        *)
(* appends nothing, broadcasts nothing, reports no failure and leaves the  *)
(* log unchanged.                                                          *)
(***************************************************************************)
IsQuery == lastCall.op = "isNodeIDTaken"

C19_TakenIffInLog ==
    IsQuery
       => /\ lastCall.result <=> (lastCall.node_id \in NodeIDsOf(lastCall.logBefore))
          /\ lastCall.appends = <<>>
          /\ lastCall.broadcasts = <<>>
          /\ lastCall.failures = <<>>
          /\ log[lastCall.node] = lastCall.logBefore
          /\ commitIndex[lastCall.node] = lastCall.commitBefore

\* The node ID is held by an entry that is neither committed nor the last
\* of the log.
C19_Witness ==
    /\ IsQuery
    /\ lastCall.result
    /\ \E i \in 1..Len(lastCall.logBefore) :
          /\ lastCall.logBefore[i].node_id = lastCall.node_id
          /\ i > lastCall.commitBefore
          /\ i < Len(lastCall.logBefore)
    /\ lastCall.logBefore[Len(lastCall.logBefore)].node_id # lastCall.node_id

(***************************************************************************)
(* C20. Every (unique_id, node_id) handed to broadcastAllocationResponse   *)
(* is, at that moment, a committed entry of the log of the replica that    *)
(* broadcasts it; an allocation that is appended and not committed is not  *)
(* announced, and the call that appends an entry broadcasts nothing.       *)
(***************************************************************************)
\* The allocations committed on replica r.
CommittedOn(r) == {AllocationOf(log[r][i]) : i \in 1..commitIndex[r]}

C20_OnlyCommittedIsBroadcast ==
    /\ (IsRequest \/ IsCommit)
          => /\ \A i \in 1..Len(lastCall.broadcasts) :
                   AllocationOf(lastCall.broadcasts[i]) \in CommittedOn(lastCall.node)
             /\ lastCall.appends # <<>> => lastCall.broadcasts = <<>>
    /\ announced \subseteq CommittedAllocations

\* A follower announces its committed entry while another entry of its log
\* is not committed.
C20_Witness ==
    /\ IsRequest
    /\ ~lastCall.wasLeader
    /\ lastCall.commitBefore < Len(lastCall.logBefore)
    /\ Len(lastCall.broadcasts) = 1
    /\ AllocationOf(lastCall.broadcasts[1]) \in CommittedOn(lastCall.node)

====
